---- MODULE Spec2Model ----
(***************************************************************************)
(* Model of go-httpstat (src/httpstat.go, the per-phase revision, lines    *)
(* 225-474): the Result record, the nine httptrace callbacks installed by  *)
(* WithHTTPStat, and Result.End.                                           *)
(*                                                                         *)
(* Time.  A time.Time is modelled as an integer: ZeroTime is Go's zero     *)
(* Time (January 1, year 1), every other value is a reading of the clock   *)
(* in ticks.  A time.Duration is an integer number of ticks.  Every        *)
(* reading of time.Now() lies more than the largest Duration (about 292    *)
(* years) after the zero Time, so time.Time.Sub saturates whenever exactly *)
(* one of its operands is the zero Time.                                   *)
(***************************************************************************)
EXTENDS Integers, Sequences, FiniteSets, TLC

VARIABLES
    r,          \* the *Result the callbacks write to
    clock,      \* the latest reading of time.Now() handed to a callback
    order,      \* how the transport delivers events: "causal" or "any"
    seen,       \* history: the names of the events delivered so far
    last,       \* history: position of the latest event in the causal order
    n,          \* history: number of events delivered (counted when order = "any")
    gotConnAt,  \* history: the instant at which GotConn last fired
    gotConnInfo,\* history: the connection the latest GotConn reported
    endOk       \* history: every End(t) so far had t at or after every stamped instant

vars == <<r, clock, order, seen, last, n, gotConnAt, gotConnInfo, endOk>>

----------------------------------------------------------------------------
(* Bounds *)

\* Largest reading of the clock.
MaxClock == 4

\* Number of events delivered when the transport delivers them in any order.
MaxEvents == 3

----------------------------------------------------------------------------
(* time.Time and time.Duration *)

\* The zero time.Time, the value of every instant field of a new Result.
ZeroTime == 0

\* The largest time.Duration, in ticks; the smallest is its negation
\* (minDuration = -maxDuration - 1 in Go; only the sign matters here).
MaxDuration == 1000000

MinDuration == -MaxDuration - 1

\* t.IsZero()
IsZero(t) == t = ZeroTime

\* Sub with its operands exchanged.
SubSwapped(t, u) ==
    IF t = u THEN 0
    ELSE IF IsZero(u) THEN MinDuration
    ELSE IF IsZero(t) THEN MaxDuration
    ELSE u - t

\* t.Sub(u): the duration t-u, saturated to the largest (smallest) Duration
\* when the difference overflows, which it does exactly when one operand is
\* the zero Time and the other a reading of the clock.
Sub(t, u) ==
    IF t = u THEN 0
    ELSE IF IsZero(u) THEN MaxDuration
    ELSE IF IsZero(t) THEN MinDuration
    ELSE t - u

\* The instants a callback may read from time.Now(): the clock never runs
\* backwards (Go's monotonic clock reading).
Nows == clock..MaxClock

\* The instants a caller may hand to End: any time.Time at all.
EndTimes == ZeroTime..MaxClock

----------------------------------------------------------------------------
(* Addresses *)

\* net.Addr.String() as a sequence of characters.
Conns ==
    { [local |-> <<"10", ".", "1", ":", "5000">>, remote |-> <<"93", ".", "7", ":", "443">>],
      [local |-> <<"10", ".", "2", ":", "6000">>, remote |-> <<"10", ".", "2", ":", "80">>] }

\* No connection reported yet.
NoConn == [local |-> <<>>, remote |-> <<>>]

\* strings.Split(s, ":")[0]: the text before the first ":", all of s if none.
SplitHead(s) ==
    LET colons == {i \in 1..Len(s) : s[i] = ":"}
    IN  IF colons = {} THEN s
        ELSE SubSeq(s, 1, (CHOOSE i \in colons : \A j \in colons : i <= j) - 1)

----------------------------------------------------------------------------
(* The Result record *)

InstantFields ==
    {"dnsStart", "dnsDone", "tcpStart", "tcpDone", "tlsStart", "tlsDone",
     "serverStart", "serverDone", "transferStart", "transferDone"}

PhaseFields ==
    {"DNSLookup", "TCPConnection", "TLSHandshake", "ServerProcessing", "contentTransfer"}

CheckpointFields ==
    {"NameLookup", "Connect", "PreTransfer", "StartTransfer", "total"}

\* A new Result: Go's zero value of the struct.
NewResult ==
    [NameLookup |-> 0, Connect |-> 0, PreTransfer |-> 0, StartTransfer |-> 0, total |-> 0,
     DNSLookup |-> 0, TCPConnection |-> 0, TLSHandshake |-> 0, ServerProcessing |-> 0,
     contentTransfer |-> 0,
     localAddr |-> <<>>, remoteAddr |-> <<>>,
     dnsStart |-> ZeroTime, dnsDone |-> ZeroTime, tcpStart |-> ZeroTime, tcpDone |-> ZeroTime,
     tlsStart |-> ZeroTime, tlsDone |-> ZeroTime, serverStart |-> ZeroTime,
     serverDone |-> ZeroTime, transferStart |-> ZeroTime, transferDone |-> ZeroTime,
     isTLS |-> FALSE, isReused |-> FALSE]

\* The latest instant stored in the record.
MaxInstant(s) == CHOOSE m \in {s[f] : f \in InstantFields} : \A f \in InstantFields : s[f] <= m

----------------------------------------------------------------------------
(* The callbacks of WithHTTPStat, as functions of the record and time.Now() *)

\* DNSStart that clears dnsDone for the lookup that begins.
DNSStartResetsDone(s, now) == [s EXCEPT !.dnsStart = now, !.dnsDone = ZeroTime]

DNSStartFn(s, now) == [s EXCEPT !.dnsStart = now]

DNSDoneFn(s, now) ==
    LET s1 == [s EXCEPT !.dnsDone = now]
        s2 == [s1 EXCEPT !.DNSLookup = Sub(s1.dnsDone, s1.dnsStart)]
    IN  [s2 EXCEPT !.NameLookup = s2.DNSLookup]

\* ConnectStart without the synthesis of the DNS instants.
ConnectStartNoSynth(s, now) == [s EXCEPT !.tcpStart = now]

ConnectStartFn(s, now) ==
    LET s1 == [s EXCEPT !.tcpStart = now]
    IN  IF IsZero(s1.dnsStart)
        THEN [s1 EXCEPT !.dnsStart = s1.tcpStart, !.dnsDone = s1.tcpStart]
        ELSE s1

ConnectDoneFn(s, now) ==
    LET s1 == [s EXCEPT !.tcpDone = now]
    IN  [s1 EXCEPT !.TCPConnection = Sub(s1.tcpDone, s1.tcpStart),
                   !.Connect = Sub(s1.tcpDone, s1.dnsStart)]

TLSHandshakeStartFn(s, now) == [s EXCEPT !.isTLS = TRUE, !.tlsStart = now]

\* TLSHandshakeDone that measures PreTransfer from tlsStart instead of dnsStart.
TLSHandshakeDoneFromTLSStart(s, now) ==
    LET s1 == [s EXCEPT !.tlsDone = now]
    IN  [s1 EXCEPT !.TLSHandshake = Sub(s1.tlsDone, s1.tlsStart),
                   !.PreTransfer = Sub(s1.tlsDone, s1.tlsStart)]

TLSHandshakeDoneFn(s, now) ==
    LET s1 == [s EXCEPT !.tlsDone = now]
    IN  [s1 EXCEPT !.TLSHandshake = Sub(s1.tlsDone, s1.tlsStart),
                   !.PreTransfer = Sub(s1.tlsDone, s1.dnsStart)]

GotConnFn(s, reused, conn) ==
    LET s1 == IF reused THEN [s EXCEPT !.isReused = TRUE] ELSE s
    IN  [s1 EXCEPT !.localAddr = SplitHead(conn.local),
                   !.remoteAddr = SplitHead(conn.remote)]

\* WroteRequest without the early return on isTLS.
WroteRequestNoTLSReturn(s, now) ==
    LET s1 == [s EXCEPT !.serverStart = now]
        s2 == IF IsZero(s1.dnsStart) /\ IsZero(s1.tcpStart)
              THEN [s1 EXCEPT !.dnsStart = s1.serverStart, !.dnsDone = s1.serverStart,
                              !.tcpStart = s1.serverStart, !.tcpDone = s1.serverStart]
              ELSE s1
        s3 == IF s2.isReused
              THEN [s2 EXCEPT !.dnsStart = s2.serverStart, !.dnsDone = s2.serverStart,
                              !.tcpStart = s2.serverStart, !.tcpDone = s2.serverStart,
                              !.tlsStart = s2.serverStart, !.tlsDone = s2.serverStart]
              ELSE s2
    IN  [s3 EXCEPT !.TLSHandshake = Sub(s3.tcpDone, s3.tcpDone),
                   !.PreTransfer = s3.Connect]

\* WroteRequest with the isTLS test inverted.
WroteRequestInvertedTLS(s, now) ==
    LET s1 == [s EXCEPT !.serverStart = now]
        s2 == IF IsZero(s1.dnsStart) /\ IsZero(s1.tcpStart)
              THEN [s1 EXCEPT !.dnsStart = s1.serverStart, !.dnsDone = s1.serverStart,
                              !.tcpStart = s1.serverStart, !.tcpDone = s1.serverStart]
              ELSE s1
        s3 == IF s2.isReused
              THEN [s2 EXCEPT !.dnsStart = s2.serverStart, !.dnsDone = s2.serverStart,
                              !.tcpStart = s2.serverStart, !.tcpDone = s2.serverStart,
                              !.tlsStart = s2.serverStart, !.tlsDone = s2.serverStart]
              ELSE s2
    IN  IF ~s3.isTLS
        THEN s3
        ELSE [s3 EXCEPT !.TLSHandshake = Sub(s3.tcpDone, s3.tcpDone),
                        !.PreTransfer = s3.Connect]

\* WroteRequest without the synthesis for a reused connection.
WroteRequestNoReuseSynth(s, now) ==
    LET s1 == [s EXCEPT !.serverStart = now]
        s2 == IF IsZero(s1.dnsStart) /\ IsZero(s1.tcpStart)
              THEN [s1 EXCEPT !.dnsStart = s1.serverStart, !.dnsDone = s1.serverStart,
                              !.tcpStart = s1.serverStart, !.tcpDone = s1.serverStart]
              ELSE s1
        s3 == s2
    IN  IF s3.isTLS
        THEN s3
        ELSE [s3 EXCEPT !.TLSHandshake = Sub(s3.tcpDone, s3.tcpDone),
                        !.PreTransfer = s3.Connect]

\* WroteRequest without the synthesis for a transport that fired no dial hook.
WroteRequestNoFallback(s, now) ==
    LET s1 == [s EXCEPT !.serverStart = now]
        s2 == s1
        s3 == IF s2.isReused
              THEN [s2 EXCEPT !.dnsStart = s2.serverStart, !.dnsDone = s2.serverStart,
                              !.tcpStart = s2.serverStart, !.tcpDone = s2.serverStart,
                              !.tlsStart = s2.serverStart, !.tlsDone = s2.serverStart]
              ELSE s2
    IN  IF s3.isTLS
        THEN s3
        ELSE [s3 EXCEPT !.TLSHandshake = Sub(s3.tcpDone, s3.tcpDone),
                        !.PreTransfer = s3.Connect]

WroteRequestFn(s, now) ==
    LET s1 == [s EXCEPT !.serverStart = now]
        s2 == IF IsZero(s1.dnsStart) /\ IsZero(s1.tcpStart)
              THEN [s1 EXCEPT !.dnsStart = s1.serverStart, !.dnsDone = s1.serverStart,
                              !.tcpStart = s1.serverStart, !.tcpDone = s1.serverStart]
              ELSE s1
        s3 == IF s2.isReused
              THEN [s2 EXCEPT !.dnsStart = s2.serverStart, !.dnsDone = s2.serverStart,
                              !.tcpStart = s2.serverStart, !.tcpDone = s2.serverStart,
                              !.tlsStart = s2.serverStart, !.tlsDone = s2.serverStart]
              ELSE s2
    IN  IF s3.isTLS
        THEN s3
        ELSE [s3 EXCEPT !.TLSHandshake = Sub(s3.tcpDone, s3.tcpDone),
                        !.PreTransfer = s3.Connect]

\* GotFirstResponseByte that computes the durations before it stamps serverDone.
GotFirstResponseByteLateStamp(s, now) ==
    LET s2 == [s EXCEPT !.ServerProcessing = Sub(s.serverDone, s.serverStart),
                        !.StartTransfer = Sub(s.serverDone, s.dnsStart)]
        s3 == [s2 EXCEPT !.serverDone = now]
    IN  [s3 EXCEPT !.transferStart = s3.serverDone]

\* GotFirstResponseByte that leaves transferStart alone.
GotFirstResponseByteNoTransferStart(s, now) ==
    LET s1 == [s EXCEPT !.serverDone = now]
    IN  [s1 EXCEPT !.ServerProcessing = Sub(s1.serverDone, s1.serverStart),
                   !.StartTransfer = Sub(s1.serverDone, s1.dnsStart)]

\* GotFirstResponseByte that also reports a running total.
GotFirstResponseByteSetsTotal(s, now) ==
    LET s1 == [s EXCEPT !.serverDone = now]
        s2 == [s1 EXCEPT !.ServerProcessing = Sub(s1.serverDone, s1.serverStart),
                         !.StartTransfer = Sub(s1.serverDone, s1.dnsStart),
                         !.total = Sub(s1.serverDone, s1.dnsStart)]
    IN  [s2 EXCEPT !.transferStart = s2.serverDone]

GotFirstResponseByteFn(s, now) ==
    LET s1 == [s EXCEPT !.serverDone = now]
        s2 == [s1 EXCEPT !.ServerProcessing = Sub(s1.serverDone, s1.serverStart),
                         !.StartTransfer = Sub(s1.serverDone, s1.dnsStart)]
    IN  [s2 EXCEPT !.transferStart = s2.serverDone]

\* End that computes the durations also when dnsStart is unset.
EndNoGuard(s, t) ==
    LET s1 == [s EXCEPT !.transferDone = t]
    IN  [s1 EXCEPT !.contentTransfer = Sub(s1.transferDone, s1.transferStart),
                   !.total = Sub(s1.transferDone, s1.dnsStart)]

\* End that measures total from transferStart instead of dnsStart.
EndTotalFromTransferStart(s, t) ==
    LET s1 == [s EXCEPT !.transferDone = t]
    IN  IF IsZero(s1.dnsStart)
        THEN s1
        ELSE [s1 EXCEPT !.contentTransfer = Sub(s1.transferDone, s1.transferStart),
                        !.total = Sub(s1.transferDone, s1.transferStart)]

EndFn(s, t) ==
    LET s1 == [s EXCEPT !.transferDone = t]
    IN  IF IsZero(s1.dnsStart)
        THEN s1
        ELSE [s1 EXCEPT !.contentTransfer = Sub(s1.transferDone, s1.transferStart),
                        !.total = Sub(s1.transferDone, s1.dnsStart)]

----------------------------------------------------------------------------
(* The read accessors of Result *)

\* The instants a caller may hand to Total and ContentTransfer: a reading of
\* the clock ("the time must be time after read body"), before or after the
\* stamped instants.
QueryTimes == 1..MaxClock

\* r.ContentTransfer(t)
ContentTransfer(s, t) == Sub(t, s.serverDone)

\* Total as the older revision has it: the total End stored, once there is one.
TotalStored(s, t) == IF s.total = 0 THEN Sub(t, s.dnsStart) ELSE s.total

\* r.Total(t)
Total(s, t) == Sub(t, s.dnsStart)

\* r.LocalIp()
LocalIp(s) == s.localAddr

\* r.RemoteIP()
RemoteIP(s) == s.localAddr

\* The names r.durations() maps.
DurationNames ==
    {"DNSLookup", "TCPConnection", "TLSHandshake", "ServerProcessing", "ContentTransfer",
     "NameLookup", "Connect", "PreTransfer", "StartTransfer", "Total"}

\* r.durations()
durations(s) ==
    [name \in DurationNames |->
        CASE name = "DNSLookup" -> s.DNSLookup
          [] name = "TCPConnection" -> s.TCPConnection
          [] name = "TLSHandshake" -> s.TLSHandshake
          [] name = "ServerProcessing" -> s.ServerProcessing
          [] name = "ContentTransfer" -> s.contentTransfer
          [] name = "NameLookup" -> s.NameLookup
          [] name = "Connect" -> s.Connect
          [] name = "PreTransfer" -> s.Connect
          [] name = "StartTransfer" -> s.StartTransfer
          [] name = "Total" -> s.total]


----------------------------------------------------------------------------
(* The transport and the caller *)

\* The order in which net/http fires the hooks of one request that uses them
\* all, followed by the caller's End.
Events ==
    <<"DNSStart", "DNSDone", "ConnectStart", "ConnectDone", "TLSHandshakeStart",
      "TLSHandshakeDone", "GotConn", "WroteRequest", "GotFirstResponseByte", "End">>

Idx(e) == CHOOSE i \in 1..Len(Events) : Events[i] = e

\* The transport may deliver event e now: later than every event delivered so
\* far when it keeps the causal order (events may be missing), and any event,
\* again and again, otherwise.
CanFire(e) ==
    IF order = "causal" THEN Idx(e) > last ELSE n < MaxEvents

\* The history after event e was delivered.
Deliver(e) ==
    /\ seen' = seen \cup {e}
    /\ last' = IF order = "causal" THEN Idx(e) ELSE last
    /\ n' = IF order = "causal" THEN n ELSE n + 1
    /\ order' = order

\* A callback that reads time.Now() and applies Fn to the record.
Stamp(e, now) ==
    /\ CanFire(e)
    /\ clock' = now
    /\ Deliver(e)

DNSStart ==
    \E now \in Nows :
        /\ Stamp("DNSStart", now)
        /\ r' = DNSStartFn(r, now)
        /\ UNCHANGED <<gotConnAt, gotConnInfo, endOk>>

DNSDone ==
    \E now \in Nows :
        /\ Stamp("DNSDone", now)
        /\ r' = DNSDoneFn(r, now)
        /\ UNCHANGED <<gotConnAt, gotConnInfo, endOk>>

ConnectStart ==
    \E now \in Nows :
        /\ Stamp("ConnectStart", now)
        /\ r' = ConnectStartFn(r, now)
        /\ UNCHANGED <<gotConnAt, gotConnInfo, endOk>>

ConnectDone ==
    \E now \in Nows :
        /\ Stamp("ConnectDone", now)
        /\ r' = ConnectDoneFn(r, now)
        /\ UNCHANGED <<gotConnAt, gotConnInfo, endOk>>

TLSHandshakeStart ==
    \E now \in Nows :
        /\ Stamp("TLSHandshakeStart", now)
        /\ r' = TLSHandshakeStartFn(r, now)
        /\ UNCHANGED <<gotConnAt, gotConnInfo, endOk>>

TLSHandshakeDone ==
    \E now \in Nows :
        /\ Stamp("TLSHandshakeDone", now)
        /\ r' = TLSHandshakeDoneFn(r, now)
        /\ UNCHANGED <<gotConnAt, gotConnInfo, endOk>>

\* GotConn reads no clock; the instant at which it fires is kept as history.
GotConn ==
    \E now \in Nows, reused \in BOOLEAN, conn \in Conns :
        /\ Stamp("GotConn", now)
        /\ r' = GotConnFn(r, reused, conn)
        /\ gotConnAt' = now
        /\ gotConnInfo' = conn
        /\ UNCHANGED endOk

WroteRequest ==
    \E now \in Nows :
        /\ Stamp("WroteRequest", now)
        /\ r' = WroteRequestFn(r, now)
        /\ UNCHANGED <<gotConnAt, gotConnInfo, endOk>>

GotFirstResponseByte ==
    \E now \in Nows :
        /\ Stamp("GotFirstResponseByte", now)
        /\ r' = GotFirstResponseByteFn(r, now)
        /\ UNCHANGED <<gotConnAt, gotConnInfo, endOk>>

\* The caller's r.End(t), with any t.
End ==
    \E t \in EndTimes :
        /\ CanFire("End")
        /\ Deliver("End")
        /\ r' = EndFn(r, t)
        /\ endOk' = (endOk /\ t >= MaxInstant(r))
        /\ UNCHANGED <<clock, gotConnAt, gotConnInfo>>

InitResult ==
    /\ r = NewResult
    /\ clock = 1
    /\ seen = {}
    /\ last = 0
    /\ n = 0
    /\ gotConnAt = ZeroTime
    /\ gotConnInfo = NoConn
    /\ endOk = TRUE

\* The transport delivers the events of a request in their causal order,
\* each at most once, any of them possibly missing.
Init == InitResult /\ order = "causal"

\* The transport delivers any events in any order, with duplicates.
InitAny == InitResult /\ order = "any"

Next ==
    \/ DNSStart
    \/ DNSDone
    \/ ConnectStart
    \/ ConnectDone
    \/ TLSHandshakeStart
    \/ TLSHandshakeDone
    \/ GotConn
    \/ WroteRequest
    \/ GotFirstResponseByte
    \/ End

Spec == Init /\ [][Next]_vars

SpecAny == InitAny /\ [][Next]_vars

TypeOK ==
    /\ clock \in 1..MaxClock
    /\ order \in {"causal", "any"}
    /\ seen \subseteq {Events[i] : i \in 1..Len(Events)}
    /\ \A f \in InstantFields : r[f] \in ZeroTime..MaxClock
    /\ \A f \in PhaseFields \cup CheckpointFields : r[f] \in MinDuration..MaxDuration

----------------------------------------------------------------------------
(* Event sequences the properties speak of *)

\* The first k events of the causal order.
EventsUpTo(k) == {Events[i] : i \in 1..k}

AllEvents == EventsUpTo(Len(Events))

Causal == order = "causal"

Ended == "End" \in seen

DurationFields == PhaseFields \cup CheckpointFields

\* NameLookup <= Connect <= PreTransfer <= StartTransfer <= total
Monotone(s) ==
    /\ s.NameLookup <= s.Connect
    /\ s.Connect <= s.PreTransfer
    /\ s.PreTransfer <= s.StartTransfer
    /\ s.StartTransfer <= s.total

\* GotConn(reused), WroteRequest, GotFirstResponseByte, End on a new Result.
ReusedSequence ==
    /\ Causal
    /\ seen = {"GotConn", "WroteRequest", "GotFirstResponseByte", "End"}
    /\ r.isReused

\* ConnectStart, ConnectDone, WroteRequest, GotFirstResponseByte, End.
NoDNSSequence == <<"ConnectStart", "ConnectDone", "WroteRequest", "GotFirstResponseByte", "End">>

\* DNS and connect events, then WroteRequest, with or without a GotConn that
\* reports a new connection, and no TLS event.
PlainHTTPSequence ==
    /\ Causal
    /\ \/ seen = {"DNSStart", "DNSDone", "ConnectStart", "ConnectDone", "WroteRequest"}
       \/ seen = {"DNSStart", "DNSDone", "ConnectStart", "ConnectDone", "GotConn", "WroteRequest"}
    /\ ~r.isReused

\* DNS, connect and TLS events, then WroteRequest, then possibly
\* GotFirstResponseByte.
TLSSequence ==
    /\ Causal
    /\ \/ seen = EventsUpTo(6) \cup {"WroteRequest"}
       \/ seen = EventsUpTo(6) \cup {"WroteRequest", "GotFirstResponseByte"}

\* The two instants that bound each phase.
BoundingInstants(f) ==
    CASE f = "DNSLookup" -> {"dnsStart", "dnsDone"}
      [] f = "TCPConnection" -> {"tcpStart", "tcpDone"}
      [] f = "TLSHandshake" -> {"tlsStart", "tlsDone"}
      [] f = "ServerProcessing" -> {"serverStart", "serverDone"}
      [] f = "contentTransfer" -> {"transferStart", "transferDone"}

----------------------------------------------------------------------------
(* Properties *)

\* C1: after the full well-formed sequence DNSStart, DNSDone, ConnectStart,
\* ConnectDone, TLSHandshakeStart, TLSHandshakeDone, GotConn (not reused),
\* WroteRequest, GotFirstResponseByte, End(t), with t not before the stamped
\* instants, every phase duration is >= 0 and
\* NameLookup <= Connect <= PreTransfer <= StartTransfer <= total.
C1_WellFormedConsistent ==
    (Causal /\ seen = AllEvents /\ ~r.isReused /\ endOk) =>
        /\ \A f \in PhaseFields : r[f] >= 0
        /\ Monotone(r)

C1_Witness ==
    /\ Causal /\ seen = AllEvents /\ ~r.isReused /\ endOk
    /\ r.DNSLookup > 0
    /\ r.TLSHandshake > 0
    /\ r.contentTransfer > 0

\* C2: with any subset of the DNS, connect, TLS and GotConn events missing
\* from the causal order, and WroteRequest, GotFirstResponseByte and End
\* delivered, after End NameLookup <= Connect <= PreTransfer <= StartTransfer
\* <= total.
C2_MissingEventsMonotone ==
    (Causal /\ {"WroteRequest", "GotFirstResponseByte", "End"} \subseteq seen /\ endOk) =>
        Monotone(r)

\* C3: after callbacks delivered in any order, with omissions and duplicates,
\* and an End(t) with t not before any stamped instant, no phase duration and
\* no cumulative checkpoint is negative.
C3_NoNegativeDuration ==
    (Ended /\ endOk) => \A f \in DurationFields : r[f] >= 0

\* GotFirstResponseByte fired before WroteRequest, then End.
C3_Witness ==
    /\ order = "any" /\ Ended /\ endOk
    /\ ~IsZero(r.serverDone)
    /\ r.serverStart > r.serverDone
    /\ r.total > 0

C5_ReusedPhasesZero ==
    (ReusedSequence /\ endOk) =>
        /\ r.DNSLookup = 0
        /\ r.TCPConnection = 0
        /\ r.TLSHandshake = 0
        /\ r.total >= r.StartTransfer

C5_Witness ==
    /\ ReusedSequence /\ endOk
    /\ r.StartTransfer > 0
    /\ r.total > r.StartTransfer

\* C6: in the sequence ConnectStart, ConnectDone, WroteRequest,
\* GotFirstResponseByte, End with no DNS event, from ConnectStart on
\* dnsStart = dnsDone = tcpStart and DNSLookup = 0, and from ConnectDone on
\* Connect = TCPConnection.
C6_NoDNSDial ==
    \A k \in 1..Len(NoDNSSequence) :
        (Causal /\ seen = {NoDNSSequence[i] : i \in 1..k}) =>
            /\ r.dnsStart = r.tcpStart
            /\ r.dnsDone = r.tcpStart
            /\ ~IsZero(r.tcpStart)
            /\ r.DNSLookup = 0
            /\ r.Connect = r.TCPConnection

C6_Witness ==
    /\ Causal
    /\ seen = {NoDNSSequence[i] : i \in 1..Len(NoDNSSequence)}
    /\ r.TCPConnection > 0

\* C7: after DNSStart, DNSDone, ConnectStart, ConnectDone, an optional
\* GotConn of a new connection, and WroteRequest, with no TLS event,
\* TLSHandshake = 0 and PreTransfer = Connect.
C7_PlainHTTP ==
    PlainHTTPSequence =>
        /\ r.TLSHandshake = 0
        /\ r.PreTransfer = r.Connect

C7_Witness ==
    /\ PlainHTTPSequence
    /\ "GotConn" \in seen
    /\ r.Connect > r.NameLookup
    /\ r.NameLookup > 0

\* C8: after DNSStart, DNSDone, ConnectStart, ConnectDone, TLSHandshakeStart,
\* TLSHandshakeDone and WroteRequest (and after GotFirstResponseByte),
\* PreTransfer is still tlsDone - dnsStart, the value TLSHandshakeDone gave
\* it, and PreTransfer >= Connect.
C8_TLSPath ==
    TLSSequence =>
        /\ r.PreTransfer = r.tlsDone - r.dnsStart
        /\ r.PreTransfer >= r.Connect

C8_Witness ==
    /\ TLSSequence
    /\ "GotFirstResponseByte" \in seen
    /\ r.PreTransfer > r.Connect
    /\ r.Connect > 0

\* C9: End(t) on a new Result that received no event leaves every phase
\* duration and every cumulative checkpoint 0, whatever t is.
C9_NeverUsed ==
    (seen = {"End"} /\ last = Idx("End")) => \A f \in DurationFields : r[f] = 0

C9_Witness ==
    /\ seen = {"End"}
    /\ last = Idx("End")
    /\ r.transferDone = MaxClock

\* C10: when the transport stops after a prefix of the well-formed sequence
\* and the caller calls End(t), t not before the stamped instants, every
\* phase with an unset bounding instant has duration 0.
C10_CancelledPhasesZero ==
    (/\ Causal /\ Ended /\ endOk /\ ~r.isReused
     /\ \E k \in 0..(Len(Events) - 1) : seen \ {"End"} = EventsUpTo(k)) =>
        \A f \in PhaseFields :
            (\E i \in BoundingInstants(f) : IsZero(r[i])) => r[f] = 0

\* C11: whenever the anchor instant is set, before or after End, Total(t) is
\* t - dnsStart and ContentTransfer(t) is t - serverDone for every clock
\* reading t, whatever End stored in total and contentTransfer.
C11_AsOfQueries ==
    \A t \in QueryTimes :
        /\ ~IsZero(r.dnsStart) => Total(r, t) = t - r.dnsStart
        /\ ~IsZero(r.serverDone) => ContentTransfer(r, t) = t - r.serverDone

\* After End stored a total and a contentTransfer, a query as of an earlier
\* instant answers something else.
C11_Witness ==
    /\ Ended
    /\ r.total > 0 /\ r.total < MaxDuration
    /\ r.contentTransfer > 0 /\ r.contentTransfer < MaxDuration
    /\ \E t \in QueryTimes : Total(r, t) # r.total /\ ContentTransfer(r, t) # r.contentTransfer

\* C12: when dnsStart was never set Total(t) is 0, and when serverDone was
\* never set ContentTransfer(t) is 0, for every t.
C12_AsOfQueriesUnsetAnchor ==
    \A t \in QueryTimes :
        /\ IsZero(r.dnsStart) => Total(r, t) = 0
        /\ IsZero(r.serverDone) => ContentTransfer(r, t) = 0

\* The host of an address host:port: the text before its last ":".
HostPart(a) ==
    LET colons == {i \in 1..Len(a) : a[i] = ":"}
    IN  IF colons = {} THEN a
        ELSE SubSeq(a, 1, (CHOOSE i \in colons : \A j \in colons : j <= i) - 1)

\* C13: after GotConn reported a connection whose local and remote addresses
\* have distinct hosts, RemoteIP() is the host of the remote address and
\* LocalIp() the host of the local address.
C13_AddressAccessors ==
    ("GotConn" \in seen /\ HostPart(gotConnInfo.local) # HostPart(gotConnInfo.remote)) =>
        /\ RemoteIP(r) = HostPart(gotConnInfo.remote)
        /\ LocalIp(r) = HostPart(gotConnInfo.local)

\* C14: while events arrive in the causal order, a duration whose terminal
\* event has not fired yet is 0; no callback writes transferDone,
\* contentTransfer or total, which are zero until the first End.
C14_UnreachedPhasesZero ==
    Causal =>
        /\ "DNSDone" \notin seen => (r.DNSLookup = 0 /\ r.NameLookup = 0)
        /\ "ConnectDone" \notin seen => (r.TCPConnection = 0 /\ r.Connect = 0)
        /\ "TLSHandshakeDone" \notin seen => r.TLSHandshake = 0
        /\ ("TLSHandshakeDone" \notin seen /\ "WroteRequest" \notin seen) => r.PreTransfer = 0
        /\ "GotFirstResponseByte" \notin seen => (r.ServerProcessing = 0 /\ r.StartTransfer = 0)
        /\ ~Ended => (r.contentTransfer = 0 /\ r.total = 0 /\ IsZero(r.transferDone))

C14_Witness ==
    /\ Causal
    /\ seen = EventsUpTo(9)
    /\ r.StartTransfer > r.PreTransfer
    /\ r.PreTransfer > r.Connect
    /\ r.total = 0

\* C15: with every timestamp taken from the one non-decreasing clock (End's t
\* not before any stamped instant), no callback and no End gives an instant
\* that is set an earlier value or the zero Time.
C15_MonotonicStamping ==
    [][endOk' => \A f \in InstantFields : ~IsZero(r[f]) => r'[f] >= r[f]]_vars

\* dnsStart was stamped, DNSDone measured from it, and dnsStart was stamped
\* again later.
C15_Witness ==
    /\ order = "any" /\ endOk
    /\ r.DNSLookup > 0 /\ r.DNSLookup < MaxDuration
    /\ r.dnsStart > r.dnsDone

\* The DNS, TCP and TLS instants of the record.
DialInstants == {"dnsStart", "dnsDone", "tcpStart", "tcpDone", "tlsStart", "tlsDone"}

C17_NonInstrumentedTransport ==
    /\ (Causal /\ seen = {"WroteRequest"}) =>
          /\ ~IsZero(r.serverStart)
          /\ \A f \in {"dnsStart", "dnsDone", "tcpStart", "tcpDone"} : r[f] = r.serverStart
    /\ (Causal /\ seen = {"WroteRequest", "GotFirstResponseByte"}) =>
          /\ \A f \in {"DNSLookup", "TCPConnection", "TLSHandshake", "Connect", "PreTransfer"} :
                r[f] = 0
          /\ r.StartTransfer = r.ServerProcessing
          /\ r.StartTransfer = r.serverDone - r.serverStart

C17_Witness ==
    /\ Causal
    /\ seen = {"WroteRequest", "GotFirstResponseByte"}
    /\ r.StartTransfer > 0

\* C18: in any order of events, with omissions and duplicates, tcpStart set
\* implies dnsStart set, and dnsStart is set in every state after a
\* WroteRequest.
C18_AnchorDefined ==
    /\ ~IsZero(r.tcpStart) => ~IsZero(r.dnsStart)
    /\ "WroteRequest" \in seen => ~IsZero(r.dnsStart)

\* ConnectStart, then WroteRequest, with no DNS event.
C18_Witness ==
    /\ order = "any"
    /\ "ConnectStart" \in seen /\ "WroteRequest" \in seen /\ "DNSStart" \notin seen
    /\ r.serverStart > r.tcpStart
    /\ ~IsZero(r.tcpStart)

\* C19: after any subset of the DNS, connect, TLS and GotConn events, then
\* WroteRequest, GotFirstResponseByte and End(t) with t a clock reading,
\* total = StartTransfer + contentTransfer.
C19_TotalDecomposes ==
    (/\ Causal
     /\ {"WroteRequest", "GotFirstResponseByte", "End"} \subseteq seen
     /\ ~IsZero(r.transferDone)) =>
        r.total = r.StartTransfer + r.contentTransfer

C19_Witness ==
    /\ Causal
    /\ {"WroteRequest", "GotFirstResponseByte", "End"} \subseteq seen
    /\ r.isReused
    /\ r.StartTransfer > 0
    /\ r.contentTransfer > 0

\* The field of the record a name of durations() stands for.
FieldOf(name) ==
    CASE name = "ContentTransfer" -> "contentTransfer"
      [] name = "Total" -> "total"
      [] OTHER -> name

\* C20: in every state, durations() maps each name to the current value of
\* the like-named duration; "PreTransfer" maps to the PreTransfer field.
C20_DurationsMap ==
    \A name \in DurationNames : durations(r)[name] = r[FieldOf(name)]
====
